---- MODULE Spec2Model ----
(***************************************************************************)
(* A model of src/app.py, the Streamlit dashboard over the EMS crash       *)
(* records: the cached load step (read_csv + postprocess), the binding of  *)
(* the full data set to fdf, the sidebar and the five pages.               *)
(*                                                                         *)
(* Text is a sequence of one-character strings, so that lower-casing,      *)
(* trimming, number parsing and key ordering are computed.  A cell is a    *)
(* record [k, s, n]; a column is [dtype, vals]; a table maps the names of  *)
(* its columns to columns of one common length.                            *)
(***************************************************************************)
EXTENDS Integers, Sequences, FiniteSets, TLC

\* Largest number of data rows of a table drawn as an input.
MaxRows == 3

\* ------------------------------------------------------------------ text

Upper == <<"A","B","C","D","E","F","G","H","I","J","K","L","M",
           "N","O","P","Q","R","S","T","U","V","W","X","Y","Z">>
Lowercase == <<"a","b","c","d","e","f","g","h","i","j","k","l","m",
               "n","o","p","q","r","s","t","u","v","w","x","y","z">>
Digits == <<"0","1","2","3","4","5","6","7","8","9">>

\* The punctuation of the model below the digits, in code point order from 32.
Punct == <<" ","!","#","$","%","&","'","(",")","*","+",",","-",".","/">>
PunctCode == <<32,33,35,36,37,38,39,40,41,42,43,44,45,46,47>>

IndexOf(seq, x) == CHOOSE i \in 1..Len(seq) : seq[i] = x
Has(seq, x) == \E i \in 1..Len(seq) : seq[i] = x

\* Python's ord on the characters of the model.
Ord(c) ==
    IF c = "\t" THEN 9
    ELSE IF c = "\n" THEN 10
    ELSE IF Has(Punct, c) THEN PunctCode[IndexOf(Punct, c)]
    ELSE IF Has(Digits, c) THEN 47 + IndexOf(Digits, c)
    ELSE IF Has(Upper, c) THEN 64 + IndexOf(Upper, c)
    ELSE 96 + IndexOf(Lowercase, c)

Whitespace == {" ", "\t", "\n"}

\* str.lower, one character.
LowerChar(c) == IF Has(Upper, c) THEN Lowercase[IndexOf(Upper, c)] ELSE c

\* str.lower
StrLower(s) == [i \in 1..Len(s) |-> LowerChar(s[i])]

\* str.strip: drops the leading and the trailing run of whitespace.
StrStrip(s) ==
    LET keep == {i \in 1..Len(s) : s[i] \notin Whitespace}
    IN  IF keep = {} THEN <<>>
        ELSE LET lo == CHOOSE i \in keep : \A j \in keep : i <= j
                 hi == CHOOSE i \in keep : \A j \in keep : j <= i
             IN  SubSeq(s, lo, hi)

\* Python's < on str: lexicographic by code point, a proper prefix first.
RECURSIVE StrLess(_, _)
StrLess(a, b) ==
    IF b = <<>> THEN FALSE
    ELSE IF a = <<>> THEN TRUE
    ELSE IF a[1] = b[1] THEN StrLess(Tail(a), Tail(b))
    ELSE Ord(a[1]) < Ord(b[1])

IsDigits(s) == Len(s) > 0 /\ \A i \in 1..Len(s) : Has(Digits, s[i])

RECURSIVE DigitsValue(_)
DigitsValue(s) ==
    IF s = <<>> THEN 0
    ELSE 10 * DigitsValue(SubSeq(s, 1, Len(s) - 1)) + (IndexOf(Digits, s[Len(s)]) - 1)

\* The fractional digits of a literal without their trailing zeros.
RECURSIVE DropTrailingZeros(_)
DropTrailingZeros(s) ==
    IF s # <<>> /\ s[Len(s)] = "0" THEN DropTrailingZeros(SubSeq(s, 1, Len(s) - 1)) ELSE s

\* ----------------------------------------------------------------- cells

NA == [k |-> "na", s |-> <<>>, n |-> 0]
StrCell(s) == [k |-> "str", s |-> s, n |-> 0]
IntCell(n) == [k |-> "int", s |-> <<>>, n |-> n]
\* A float: integer part n, fractional digits s (none when the value is integral).
FloatCell(n, frac) == [k |-> "float", s |-> frac, n |-> n]

IsNA(c) == c.k = "na"

\* The order of group keys: numbers by value, text by code point.
CellLess(a, b) ==
    IF a.k = "str" /\ b.k = "str" THEN StrLess(a.s, b.s)
    ELSE IF a.k = "str" THEN FALSE
    ELSE IF b.k = "str" THEN TRUE
    ELSE a.n < b.n \/ (a.n = b.n /\ StrLess(a.s, b.s))

\* ---------------------------------------------------------------- tables

Column(dtype, vals) == [dtype |-> dtype, vals |-> vals]
Columns(t) == DOMAIN t
NRows(t) == IF Columns(t) = {} THEN 0 ELSE Len(t[CHOOSE c \in Columns(t) : TRUE].vals)

\* DataFrame.copy()
CopyTable(t) == [c \in Columns(t) |-> Column(t[c].dtype, t[c].vals)]

\* df[col] = column
SetColumn(t, name, col) == [c \in Columns(t) \cup {name} |-> IF c = name THEN col ELSE t[c]]

\* The rows of t at the positions idx, in their order (boolean indexing).
TakeRows(t, idx) == [c \in Columns(t) |-> Column(t[c].dtype, [i \in 1..Len(idx) |-> t[c].vals[idx[i]]])]

\* The elements of the set of positions S in ascending order.
RECURSIVE Ascending(_)
Ascending(S) ==
    IF S = {} THEN <<>>
    ELSE LET m == CHOOSE x \in S : \A y \in S : x <= y IN <<m>> \o Ascending(S \ {m})

\* ----------------------------------------------------------- postprocess

\* The parse of one text value by pd.to_numeric(errors='coerce'): an unsigned
\* decimal literal gives its number, anything else is coerced to NaN.
ParseNumber(s) ==
    IF IsDigits(s) THEN IntCell(DigitsValue(s))
    ELSE IF \E p \in 1..Len(s) :
              /\ s[p] = "."
              /\ IsDigits(SubSeq(s, 1, p - 1))
              /\ IsDigits(SubSeq(s, p + 1, Len(s)))
         THEN LET p == CHOOSE q \in 1..Len(s) : s[q] = "."
              IN  FloatCell(DigitsValue(SubSeq(s, 1, p - 1)), DropTrailingZeros(SubSeq(s, p + 1, Len(s))))
         ELSE NA

ToFloat(c) == IF c.k = "int" THEN FloatCell(c.n, <<>>) ELSE c

\* pd.to_numeric(column, errors='coerce'): a numeric column is returned as it
\* is; a text column is parsed, to int64 when every value is an integer
\* literal and to float64 (NaN for the unparseable) otherwise.
to_numeric(col) ==
    IF col.dtype \in {"int64", "float64", "Int64"} THEN col
    ELSE LET parsed == [i \in 1..Len(col.vals) |->
                          IF col.vals[i].k = "str" THEN ParseNumber(col.vals[i].s)
                          ELSE IF col.vals[i].k \in {"int", "float"} THEN col.vals[i]
                          ELSE NA]
         IN  IF \A i \in 1..Len(parsed) : parsed[i].k = "int"
             THEN Column("int64", parsed)
             ELSE Column("float64", [i \in 1..Len(parsed) |-> ToFloat(parsed[i])])

\* .astype('Int64') raises TypeError (cannot safely cast non-equivalent
\* float64 to int64) when a float of the column is not integral.
astype_Int64_raises(col) ==
    \E i \in 1..Len(col.vals) : col.vals[i].k = "float" /\ col.vals[i].s # <<>>

\* .astype('Int64') on a column it accepts: integers, NaN to <NA>.
astype_Int64(col) ==
    Column("Int64", [i \in 1..Len(col.vals) |->
                       IF col.vals[i].k \in {"int", "float"} THEN IntCell(col.vals[i].n) ELSE NA])

\* The fixed ordered domain of AgeGroup.
order == << <<"0","-","2","4">>, <<"2","5","-","3","4">>, <<"3","5","-","4","4">>,
            <<"4","5","-","5","4">>, <<"5","5","-","6","4">>, <<"6","5","-","7","4">>,
            <<"7","5","-","8","4">>, <<"8","5","+">> >>

\* pd.Categorical(...).codes in place of the categorical: positions, -1 for none.
Categorical_codes(col) ==
    Column("int64", [i \in 1..Len(col.vals) |->
                       IF col.vals[i].k = "str" /\ Has(order, col.vals[i].s)
                       THEN IntCell(IndexOf(order, col.vals[i].s) - 1) ELSE IntCell(-1)])

\* pd.Categorical(column, categories=order, ordered=True): a value that is
\* not one of the categories becomes missing.
Categorical(col) ==
    Column("category", [i \in 1..Len(col.vals) |->
                          IF col.vals[i].k = "str" /\ Has(order, col.vals[i].s)
                          THEN col.vals[i] ELSE NA])

YearStep(df) ==
    IF "Year" \in Columns(df)
    THEN SetColumn(df, "Year", astype_Int64(to_numeric(df["Year"])))
    ELSE df

AgeGroupStep(df) ==
    IF "AgeGroup" \in Columns(df)
    THEN SetColumn(df, "AgeGroup", Categorical(df["AgeGroup"]))
    ELSE df

\* postprocess(df): the table it returns, or raised when the Year cast raises.
postprocess(df) ==
    IF "Year" \in Columns(df) /\ astype_Int64_raises(to_numeric(df["Year"]))
    THEN [raised |-> TRUE, table |-> df]
    ELSE [raised |-> FALSE, table |-> AgeGroupStep(YearStep(df))]

\* ------------------------------------------------------------------ heap

\* Tables are objects: heap is the sequence of the tables of the current run
\* and a reference is a position in it (0: the name is unbound).
Alloc(h, t) == [heap |-> Append(h, t), ref |-> Len(h) + 1]

\* dfc = df_to_clean: no copy, the argument itself.
df_alias(h, r) == [heap |-> h, ref |-> r]

\* df_to_clean.copy(): a new object with the cells of the argument.
df_copy(h, r) == Alloc(h, CopyTable(h[r]))

\* ----------------------------------------------------- null normalization

common_nulls == {
    <<"n","o","t"," ","r","e","c","o","r","d","e","d">>,
    <<"n","o","t"," ","a","p","p","l","i","c","a","b","l","e">>,
    <<"n","o","t"," ","k","n","o","w","n">>,
    <<"u","n","k","n","o","w","n">>,
    <<"m","i","s","s","i","n","g">>,
    <<"n","o","n","e">>,
    <<"n","u","l","l">>,
    <<"n","/","a">>,
    <<"n","a">>,
    <<"n","o","t"," ","a","v","a","i","l","a","b","l","e">>,
    <<"r","e","f","u","s","e","d">>,
    <<"b","l","a","n","k">>,
    <<>>,
    <<"n","a","n">> }

\* pd.api.types.is_object_dtype(col) or pd.api.types.is_string_dtype(col)
IsTextDtype(dtype) == dtype \in {"object", "string"}

\* The same without .str.strip().
LowerOnlyCell(c) == IF IsNA(c) THEN c ELSE StrCell(StrLower(c.s))

\* col.where(col.isna(), col.astype(str).str.lower().str.strip()) on one cell:
\* a missing cell is kept, any other becomes its lower-cased, stripped text.
LowerStripCell(c) == IF IsNA(c) THEN c ELSE StrCell(StrStrip(StrLower(c.s)))

\* col.replace(common_nulls, np.nan) on one cell.
ReplaceNullCell(c) == IF c.k = "str" /\ c.s \in common_nulls THEN NA ELSE c

\* The body of the loop over dfc.columns for one column.
CleanColumn(col) ==
    IF IsTextDtype(col.dtype)
    THEN Column(col.dtype, [i \in 1..Len(col.vals) |-> ReplaceNullCell(LowerStripCell(col.vals[i]))])
    ELSE col

\* normalize_and_replace_nulls(df_to_clean): copies, cleans the copy column by
\* column and returns it; [heap, ref] is the heap after the call and the
\* reference returned.
normalize_and_replace_nulls(h, r) ==
    LET c == df_copy(h, r)
        dfc == c.heap[c.ref]
    IN  [heap |-> [c.heap EXCEPT ![c.ref] = [col \in Columns(dfc) |-> CleanColumn(dfc[col])]],
         ref |-> c.ref]

\* ------------------------------------------------------------ group counts

\* The positions of the rows of t whose cell in column c is not missing.
NotNaRows(t, c) == {i \in 1..NRows(t) : ~IsNA(t[c].vals[i])}

\* df.dropna(subset=[c])
dropna(t, c) == TakeRows(t, Ascending(NotNaRows(t, c)))

\* The distinct values of a sequence of cells, missing ones left out.
Distinct(vals) == {vals[i] : i \in {j \in 1..Len(vals) : ~IsNA(vals[j])}}

\* Series.nunique(): the number of distinct non-missing values.
nunique(vals) == Cardinality(Distinct(vals))

\* The keys of a group-by in its order (sort=True): ascending.
RECURSIVE SortedKeys(_)
SortedKeys(K) ==
    IF K = {} THEN <<>>
    ELSE LET m == CHOOSE x \in K : \A y \in K \ {x} : CellLess(x, y)
         IN  <<m>> \o SortedKeys(K \ {m})

CountOf(vals, key) == Cardinality({i \in 1..Len(vals) : vals[i] = key})

\* t.groupby(c).size().reset_index(name='Count'): one row per key, keys ascending.
groupby_size(t, c) ==
    LET keys == SortedKeys(Distinct(t[c].vals))
    IN  [i \in 1..Len(keys) |-> [key |-> keys[i], Count |-> CountOf(t[c].vals, keys[i])]]

\* .sort_values('Count'): ascending.
sort_values_asc(view) ==
    LET n == Len(view)
        perms == {f \in [1..n -> 1..n] : \A i, j \in 1..n : i # j => f[i] # f[j]}
    IN  {[i \in 1..n |-> view[f[i]]] : f \in {g \in perms :
            \A i \in 1..n : i < n => view[g[i]].Count <= view[g[i + 1]].Count}}

\* The results .sort_values('Count', ascending=False) may give: the default
\* sort is quicksort, which is not stable, so the rows come in non-increasing
\* Count and rows of equal Count in an order the build decides.
sort_values_desc(view) ==
    LET n == Len(view)
        perms == {f \in [1..n -> 1..n] : \A i, j \in 1..n : i # j => f[i] # f[j]}
    IN  {[i \in 1..n |-> view[f[i]]] : f \in {g \in perms :
            \A i \in 1..n : i < n => view[g[i]].Count >= view[g[i + 1]].Count}}

\* The count with neither dropna nor the group-by's own dropping of missing
\* keys (groupby(c, dropna=False)): missing is a group, the last one.
count_view_keepna(t, c) ==
    LET n == Cardinality({i \in 1..NRows(t) : IsNA(t[c].vals[i])})
    IN  groupby_size(t, c) \o (IF n > 0 THEN <<[key |-> NA, Count |-> n]>> ELSE <<>>)

\* fdf.dropna(subset=[c]).groupby(c).size().reset_index(name='Count')
count_view(t, c) == groupby_size(dropna(t, c), c)

\* -------------------------------------------------------------- duplicates

\* The columns whose name contains 'Time' (line 201), over the names of the model.
TimeNamed == {"DispatchTime"}
time_cols(t) == Columns(t) \cap TimeNamed

\* fdf['PcrKey'].value_counts() restricted to the keys counted more than once.
dup_keys_list(t) == {k \in Distinct(t["PcrKey"].vals) : CountOf(t["PcrKey"].vals, k) > 1}

\* dup_df = fdf[fdf['PcrKey'].isin(dup_keys_list)]
dup_df(t) == TakeRows(t, Ascending({i \in 1..NRows(t) : t["PcrKey"].vals[i] \in dup_keys_list(t)}))

\* The cells of column c in the rows of the group of key k.
GroupVals(t, k, c) ==
    LET idx == Ascending({i \in 1..NRows(t) : t["PcrKey"].vals[i] = k})
    IN  [i \in 1..Len(idx) |-> t[c].vals[idx[i]]]

\* d.groupby('PcrKey')[c].nunique(): per key, the distinct non-missing values of c.
groupby_nunique(d, c) == [k \in Distinct(d["PcrKey"].vals) |-> nunique(GroupVals(d, k, c))]

\* Series.value_counts() of a per-key series: value -> number of keys with it.
value_counts(series) ==
    [v \in {series[k] : k \in DOMAIN series} |-> Cardinality({k \in DOMAIN series : series[k] = v})]

\* df.dropna(): the rows with no missing cell.
dropna_any(t) == TakeRows(t, Ascending({i \in 1..NRows(t) : \A c \in Columns(t) : ~IsNA(t[c].vals[i])}))

\* age_col = 'Age_Number' if 'Age_Number' in dup_df.columns else 'PcrKey'
age_col(d) == IF "Age_Number" \in Columns(d) THEN "Age_Number" ELSE "PcrKey"

\* (multi_patient['Gender'] > 1) | (multi_patient[age_col] > 1), per key.
multi_patient(d) ==
    [k \in Distinct(d["PcrKey"].vals) |->
        groupby_nunique(d, "Gender")[k] > 1 \/ groupby_nunique(d, age_col(d))[k] > 1]

\* dup_df.groupby('PcrKey')[time_cols].nunique().max(axis=1) > 1, per key.
revision_like(d, tcols) ==
    [k \in Distinct(d["PcrKey"].vals) |-> \E c \in tcols : groupby_nunique(d, c)[k] > 1]

\* race_diffs[race_diffs > 1].index
keys_with_diff_race(d) ==
    {k \in Distinct(d["PcrKey"].vals) : groupby_nunique(d, "Race")[k] > 1}

\* ------------------------------------------------------------------ state

VARIABLES
    file,     \* sampled_ems_data_100k.csv: [kind, table]
    cache,    \* st.cache_data's entry for load_data_from_repo: <<>> or <<table>>
    pc,       \* position of the script run
    heap,     \* the tables of the current run
    df,       \* reference bound to df (0: unbound)
    fdf,      \* reference bound to fdf (0: unbound)
    page,     \* the page selected in the sidebar radio (session state)
    out,      \* what the current run has put on the screen
    views,    \* the values the rendered page derived
    applied   \* results of successive applications of postprocess to file.table

vars == <<file, cache, pc, heap, df, fdf, page, out, views, applied>>

\* pages.values() in their order; the radio starts on the first.
pages == <<"overview", "missing_values", "data_duplicates", "census_merging", "visualization">>
PageNames == {pages[i] : i \in 1..Len(pages)}

NoOut == [error |-> "none", sidebar |-> FALSE, rows_shown |-> 0, rendered |-> "none",
          warnings |-> {}, exception |-> "none", charts |-> {}]

NoViews == [preview |-> <<>>, fdf_cleaned |-> 0, age_units_counts |-> <<>>, non_years |-> 0,
            total_count |-> 0, unique_count |-> 0, duplicated_incidents |-> 0,
            year_nunique |-> <<>>, cross_year |-> <<>>, multi_patient |-> <<>>, is_multi |-> 0,
            revision_like |-> <<>>, revision_sum |-> 0, keys_with_diff_race |-> {},
            example_key |-> <<>>, gender_counts |-> <<>>, race_counts |-> <<>>,
            year_counts |-> <<>>, div_counts |-> <<>>]

EmptyTable == <<>>

MissingFile == [kind |-> "missing", table |-> EmptyTable]
MalformedFile == [kind |-> "malformed", table |-> EmptyTable]
CsvFile(t) == [kind |-> "csv", table |-> t]

\* ------------------------------------------------------------------- load

\* load_data_from_repo(file_path) on a cache miss: what pd.read_csv and
\* postprocess give. raised is "none", "FileNotFoundError" or "Exception".
load_data_from_repo(f) ==
    IF f.kind = "missing" THEN [raised |-> "FileNotFoundError", table |-> EmptyTable]
    ELSE IF f.kind = "malformed" THEN [raised |-> "Exception", table |-> EmptyTable]
    ELSE LET r == postprocess(f.table)
         IN  IF r.raised THEN [raised |-> "Exception", table |-> EmptyTable]
             ELSE [raised |-> "none", table |-> r.table]

\* An except clause without st.stop(): the script goes on.
AfterLoadErrorContinue == "bind"

\* Both except clauses end in st.stop(): the run halts.
AfterLoadError == "stopped"

\* Lines 34-43: the cached load; on an exception st.error and st.stop().
Load ==
    /\ pc = "load"
    /\ IF cache # <<>>
       THEN /\ heap' = <<CopyTable(cache[1])>>
            /\ df' = 1
            /\ pc' = "bind"
            /\ UNCHANGED <<cache, out>>
       ELSE LET r == load_data_from_repo(file)
            IN  IF r.raised = "none"
                THEN /\ cache' = <<r.table>>
                     /\ heap' = <<r.table>>
                     /\ df' = 1
                     /\ pc' = "bind"
                     /\ UNCHANGED out
                ELSE /\ out' = [out EXCEPT !.error = r.raised]
                     /\ pc' = AfterLoadError
                     /\ UNCHANGED <<cache, heap, df>>
    /\ UNCHANGED <<file, fdf, page, views, applied>>

\* fdf = df.dropna(): a filtered copy in place of the full data set.
BindFdfDropNa(h, r) == Alloc(h, dropna_any(h[r]))

\* fdf = df: the same object under a second name.
BindFdf(h, r) == [heap |-> h, ref |-> r]

\* Lines 45-46.
Bind ==
    /\ pc = "bind"
    /\ LET b == BindFdf(heap, df)
       IN  heap' = b.heap /\ fdf' = b.ref
    /\ pc' = "sidebar"
    /\ UNCHANGED <<file, cache, df, page, out, views, applied>>

\* Lines 51-61: the success box with len(fdf), the header and the radio.
Sidebar ==
    /\ pc = "sidebar"
    /\ out' = [out EXCEPT !.sidebar = TRUE, !.rows_shown = NRows(heap[fdf])]
    /\ pc' = "page"
    /\ UNCHANGED <<file, cache, heap, df, fdf, page, views, applied>>

\* A widget interaction or a reload starts the script again; after st.stop()
\* there is no radio, so the selection stays.
Rerun ==
    /\ pc \in {"done", "stopped"}
    /\ \E p \in PageNames :
          /\ pc = "stopped" => p = page
          /\ page' = p
    /\ pc' = "load"
    /\ heap' = <<>>
    /\ df' = 0
    /\ fdf' = 0
    /\ out' = NoOut
    /\ views' = NoViews
    /\ UNCHANGED <<file, cache, applied>>

\* ------------------------------------------------------------------ pages

\* fdf.head()
head(t, k) == TakeRows(t, [i \in 1..(IF NRows(t) < k THEN NRows(t) ELSE k) |-> i])

\* Lines 76-99.
RenderOverview ==
    /\ pc = "page" /\ page = "overview"
    /\ views' = [views EXCEPT !.preview = head(heap[fdf], 5)]
    /\ out' = [out EXCEPT !.rendered = page, !.charts = {"preview"}]
    /\ pc' = "done"
    /\ UNCHANGED <<file, cache, heap, df, fdf, page, applied>>

T_Missing == <<"M","i","s","s","i","n","g">>
T_years == <<"y","e","a","r","s">>

\* col.fillna('Missing') on one cell.
fillna_Missing(c) == IF IsNA(c) THEN StrCell(T_Missing) ELSE c

\* fdf_cleaned['Age Units'].fillna('Missing').value_counts(): value -> count
\* (the order of the bars is not represented).
age_units_counts(t) ==
    LET filled == [i \in 1..NRows(t) |-> fillna_Missing(t["Age Units"].vals[i])]
    IN  [v \in Distinct(filled) |-> CountOf(filled, v)]

\* len(fdf_cleaned[fdf_cleaned['Age Units'].fillna('Missing') != 'years'])
non_years(t) ==
    Cardinality({i \in 1..NRows(t) : fillna_Missing(t["Age Units"].vals[i]) # StrCell(T_years)})

\* Lines 101-162.
RenderMissingValues ==
    /\ pc = "page" /\ page = "missing_values"
    /\ LET nz == normalize_and_replace_nulls(heap, fdf)
           cleaned == nz.heap[nz.ref]
       IN  /\ heap' = nz.heap
           /\ IF "Age Units" \in Columns(cleaned)
              THEN /\ views' = [views EXCEPT !.fdf_cleaned = nz.ref,
                                             !.age_units_counts = age_units_counts(cleaned),
                                             !.non_years = non_years(cleaned)]
                   /\ out' = [out EXCEPT
                        !.rendered = page,
                        !.charts = {"heatmap", "age_units"},
                        !.exception = IF "ageinyear" \in Columns(cleaned) THEN "none" ELSE "KeyError"]
              ELSE /\ views' = [views EXCEPT !.fdf_cleaned = nz.ref]
                   /\ out' = [out EXCEPT !.rendered = page, !.charts = {"heatmap"},
                                         !.warnings = {"Age Units"}]
    /\ pc' = "done"
    /\ UNCHANGED <<file, cache, df, fdf, page, applied>>

\* .sum() of a per-key boolean series.
SumTrue(series) == Cardinality({k \in DOMAIN series : series[k]})

\* Lines 173-180: the three metrics.
DupMetrics(t, v) ==
    [v EXCEPT !.total_count = NRows(t),
              !.unique_count = nunique(t["PcrKey"].vals),
              !.duplicated_incidents = NRows(t) - nunique(t["PcrKey"].vals)]

\* Lines 189-192: hypothesis 1.
DupCrossYear(d, v) ==
    [v EXCEPT !.year_nunique = groupby_nunique(d, "Year"),
              !.cross_year = value_counts(groupby_nunique(d, "Year"))]

\* Lines 194-198: hypothesis 2.
DupMultiPatient(d, v) ==
    [v EXCEPT !.multi_patient = multi_patient(d), !.is_multi = SumTrue(multi_patient(d))]

\* Lines 200-204: hypothesis 3, when there are time columns.
DupRevision(d, tcols, v) ==
    [v EXCEPT !.revision_like = revision_like(d, tcols),
              !.revision_sum = SumTrue(revision_like(d, tcols))]

\* Lines 215-225: the Race discrepancy and its example, the first key.
DupRace(d, v) ==
    LET kd == keys_with_diff_race(d)
    IN  [v EXCEPT !.keys_with_diff_race = kd,
                  !.example_key = IF kd = {} THEN <<>> ELSE <<SortedKeys(kd)[1]>>]

Raise(o, p, e) == [o EXCEPT !.rendered = p, !.exception = e]

\* Lines 164-231. A column the page indexes without a test raises KeyError and
\* ends the run with what was shown so far.
data_duplicates(t, v, o) ==
    IF "PcrKey" \notin Columns(t) THEN [views |-> v, out |-> Raise(o, "data_duplicates", "KeyError")]
    ELSE
    LET d == dup_df(t)
        v1 == DupMetrics(t, v)
        o1 == [o EXCEPT !.rendered = "data_duplicates", !.charts = {"metrics"}]
    IN
    IF "Year" \notin Columns(t) THEN [views |-> v1, out |-> Raise(o1, "data_duplicates", "KeyError")]
    ELSE
    LET v2 == DupCrossYear(d, v1)
        o2 == [o1 EXCEPT !.charts = @ \cup {"cross_year"}]
    IN
    IF "Gender" \notin Columns(t) THEN [views |-> v2, out |-> Raise(o2, "data_duplicates", "KeyError")]
    ELSE
    LET v3 == DupMultiPatient(d, v2)
        tc == time_cols(t)
        v4 == IF tc # {} THEN DupRevision(d, tc, v3) ELSE v3
        o4 == IF tc # {} THEN o2 ELSE [o2 EXCEPT !.warnings = @ \cup {"Time"}]
    IN
    IF "Race" \notin Columns(t) THEN [views |-> v4, out |-> Raise(o4, "data_duplicates", "KeyError")]
    ELSE
    LET v5 == DupRace(d, v4)
    IN  [views |-> v5,
         out |-> IF v5.keys_with_diff_race # {}
                 THEN [o4 EXCEPT !.charts = @ \cup {"race_example"}]
                 ELSE [o4 EXCEPT !.charts = @ \cup {"dup_head"},
                                 !.warnings = @ \cup {"race_example"}]]

RenderDuplicates ==
    /\ pc = "page" /\ page = "data_duplicates"
    /\ LET r == data_duplicates(heap[fdf], views, out)
       IN  views' = r.views /\ out' = r.out
    /\ pc' = "done"
    /\ UNCHANGED <<file, cache, heap, df, fdf, page, applied>>

\* Lines 233-255: text only.
RenderCensus ==
    /\ pc = "page" /\ page = "census_merging"
    /\ out' = [out EXCEPT !.rendered = page]
    /\ pc' = "done"
    /\ UNCHANGED <<file, cache, heap, df, fdf, page, views, applied>>

\* Lines 270-271 and 294-296: counts in group-by order; no chart without the column.
gender_counts(t) == IF "Gender" \in Columns(t) THEN count_view(t, "Gender") ELSE <<>>
year_counts(t) == IF "Year" \in Columns(t) THEN count_view(t, "Year") ELSE <<>>

\* Lines 279-282 and 304-307: counts sorted by Count, descending.
race_counts(t) == IF "Race" \in Columns(t) THEN sort_values_desc(count_view(t, "Race")) ELSE {<<>>}
div_counts(t) ==
    IF "USCensusDivision" \in Columns(t)
    THEN sort_values_desc(count_view(t, "USCensusDivision")) ELSE {<<>>}

ChartColumns == {"Gender", "Race", "Year", "USCensusDivision"}

\* Lines 257-311: the caveat, then each chart whose column the table has.
RenderVisualization ==
    /\ pc = "page" /\ page = "visualization"
    /\ \E rc \in race_counts(heap[fdf]), dc \in div_counts(heap[fdf]) :
          views' = [views EXCEPT !.gender_counts = gender_counts(heap[fdf]),
                                 !.race_counts = rc,
                                 !.year_counts = year_counts(heap[fdf]),
                                 !.div_counts = dc]
    /\ out' = [out EXCEPT !.rendered = page,
                          !.warnings = {"caveat"},
                          !.charts = ChartColumns \cap Columns(heap[fdf])]
    /\ pc' = "done"
    /\ UNCHANGED <<file, cache, heap, df, fdf, page, applied>>

\* ----------------------------------------------------------------- inputs

\* Text values of the input tables.
T_Male == <<"M","a","l","e">>
T_male == <<"m","a","l","e">>
T_Female == <<"F","e","m","a","l","e">>
T_White == <<"W","h","i","t","e">>
T_Black == <<"B","l","a","c","k">>
T_Pacific == <<"P","a","c","i","f","i","c">>
T_Mountain == <<"M","o","u","n","t","a","i","n">>
T_Unknown == <<"U","n","k","n","o","w","n">>
T_NA_padded == <<" ","N","/","A"," ">>
T_Years == <<"Y","e","a","r","s">>
T_years_padded == <<" ","y","e","a","r","s">>
T_Months == <<"M","o","n","t","h","s">>
T_0800 == <<"0","8","0","0">>
T_0915 == <<"0","9","1","5">>
T_NotRecorded == <<"\t","N","o","t"," ","R","e","c","o","r","d","e","d","\n">>
T_NaN == <<"N","a","N">>
T_blank == <<" "," ">>
T_2019 == <<"2","0","1","9">>
T_abc == <<"a","b","c">>
T_2019_5 == <<"2","0","1","9",".","5">>
T_2020_0 == <<"2","0","2","0",".","0">>
T_0_24 == <<"0","-","2","4">>
T_85plus == <<"8","5","+">>
T_90plus == <<"9","0","+">>

\* The dtype pd.read_csv infers for a column of the sample file.
RawDtype(c) ==
    IF c \in {"PcrKey", "Year", "ageinyear", "Age_Number"} THEN "int64" ELSE "object"

\* Three records of the sample file, repeated in this order.
SampleRow(i) ==
    LET r == ((i - 1) % 3) + 1
    IN  IF r = 1 THEN
            [PcrKey |-> IntCell(42), Year |-> IntCell(2019), Gender |-> StrCell(T_Male),
             Race |-> StrCell(T_White), USCensusDivision |-> StrCell(T_Pacific),
             Age_Units |-> StrCell(T_Years), ageinyear |-> IntCell(30), Age_Number |-> IntCell(30),
             DispatchTime |-> StrCell(T_0800)]
        ELSE IF r = 2 THEN
            [PcrKey |-> IntCell(42), Year |-> IntCell(2019), Gender |-> StrCell(T_Male),
             Race |-> StrCell(T_Black), USCensusDivision |-> StrCell(T_NA_padded),
             Age_Units |-> StrCell(T_Months), ageinyear |-> IntCell(11), Age_Number |-> IntCell(30),
             DispatchTime |-> StrCell(T_0800)]
        ELSE
            [PcrKey |-> IntCell(7), Year |-> IntCell(2020), Gender |-> StrCell(T_Unknown),
             Race |-> NA, USCensusDivision |-> StrCell(T_Pacific),
             Age_Units |-> NA, ageinyear |-> IntCell(45), Age_Number |-> IntCell(45),
             DispatchTime |-> StrCell(T_0915)]

\* The field of a row record that holds the column (a field name has no blank).
Field(c) == IF c = "Age Units" THEN "Age_Units" ELSE c

AppColumns == {"PcrKey", "Year", "Gender", "Race", "USCensusDivision", "Age Units",
               "ageinyear", "Age_Number", "DispatchTime"}

\* The table pd.read_csv gives for a file with the columns cols and n records.
\* With fractional, the first Year is written 2019.5 and the column is float64.
AppTable(cols, n, fractional) ==
    [c \in cols |->
        IF c = "Year" /\ fractional
        THEN Column("float64", [i \in 1..n |->
                IF i = 1 THEN FloatCell(2019, <<"5">>) ELSE ToFloat(SampleRow(i)[Field(c)])])
        ELSE Column(RawDtype(c), [i \in 1..n |-> SampleRow(i)[Field(c)]])]

AppFiles ==
    {MissingFile, MalformedFile}
    \cup {CsvFile(AppTable(cols, n, FALSE)) : cols \in SUBSET AppColumns \ {{}}, n \in 1..MaxRows}
    \cup {CsvFile(AppTable(cols \cup {"Year"}, n, TRUE)) : cols \in SUBSET {"Gender", "PcrKey"}, n \in 1..MaxRows}

\* ---------------------------------------------------------- specification

Init ==
    /\ file \in AppFiles
    /\ cache = <<>>
    /\ pc = "load"
    /\ heap = <<>>
    /\ df = 0
    /\ fdf = 0
    /\ page = pages[1]
    /\ out = NoOut
    /\ views = NoViews
    /\ applied = <<>>

Next ==
    \/ Load
    \/ Bind
    \/ Sidebar
    \/ RenderOverview
    \/ RenderMissingValues
    \/ RenderDuplicates
    \/ RenderCensus
    \/ RenderVisualization
    \/ Rerun

Spec == Init /\ [][Next]_vars

\* ------------------------------------------- specifications of the parts

\* The sequences over S of length at most n.
SeqsUpTo(S, n) == UNION {[1..k -> S] : k \in 0..n}

\* The run of the script for page p on a session whose cache holds the table
\* loaded from f: the state after an earlier run and the choice of p.
InitOnPage(files, p) ==
    /\ file \in files
    /\ cache = <<load_data_from_repo(file).table>>
    /\ pc = "load"
    /\ heap = <<>>
    /\ df = 0
    /\ fdf = 0
    /\ page = p
    /\ out = NoOut
    /\ views = NoViews
    /\ applied = <<>>

\* --- postprocess applied to a table, then to its own result

YearColumns ==
    UNION {
        {Column("int64", v) : v \in [1..n -> {IntCell(2019), IntCell(2020)}]}
        \cup {Column("float64", v) : v \in [1..n -> {FloatCell(2019, <<>>), FloatCell(2019, <<"5">>), NA}]}
        \cup {Column("object", v) : v \in [1..n -> {StrCell(T_2019), StrCell(T_2020_0), StrCell(T_abc),
                                                    StrCell(T_2019_5), NA}]}
        \cup {Column("Int64", v) : v \in [1..n -> {IntCell(2019), NA}]}
        : n \in 0..MaxRows}

AgeGroupColumns ==
    UNION {
        {Column("object", v) : v \in [1..n -> {StrCell(T_0_24), StrCell(T_85plus), StrCell(T_90plus), NA}]}
        \cup {Column("float64", v) : v \in [1..n -> {FloatCell(30, <<>>)}]}
        : n \in 0..MaxRows}

GenderColumn(n) == Column("object", [i \in 1..n |-> IF i % 2 = 1 THEN StrCell(T_Male) ELSE NA])

\* Tables with a Gender column and, each or not, a Year and an AgeGroup column.
PostTables ==
    {[c \in {"Gender"} |-> GenderColumn(n)] : n \in 0..MaxRows}
    \cup {[c \in {"Gender", "Year"} |-> IF c = "Year" THEN y ELSE GenderColumn(Len(y.vals))] :
            y \in YearColumns}
    \cup {[c \in {"Gender", "AgeGroup"} |-> IF c = "AgeGroup" THEN a ELSE GenderColumn(Len(a.vals))] :
            a \in AgeGroupColumns}
    \cup {[c \in {"Gender", "Year", "AgeGroup"} |->
                IF c = "Year" THEN ya[1] ELSE IF c = "AgeGroup" THEN ya[2]
                ELSE GenderColumn(Len(ya[1].vals))] :
            ya \in {p \in YearColumns \X AgeGroupColumns : Len(p[1].vals) = Len(p[2].vals)}}

\* postprocess of the result of an earlier call; an exception of the inner
\* call propagates.
postprocess_again(r) == IF r.raised THEN r ELSE postprocess(r.table)

ApplyPostprocess ==
    /\ Len(applied) < 2
    /\ applied' = Append(applied, IF applied = <<>> THEN postprocess(file.table)
                                  ELSE postprocess_again(applied[Len(applied)]))
    /\ UNCHANGED <<file, cache, pc, heap, df, fdf, page, out, views>>

InitPostprocess ==
    /\ file \in {CsvFile(t) : t \in PostTables}
    /\ cache = <<>>
    /\ pc = "load"
    /\ heap = <<>>
    /\ df = 0
    /\ fdf = 0
    /\ page = pages[1]
    /\ out = NoOut
    /\ views = NoViews
    /\ applied = <<>>

NextPostprocess == ApplyPostprocess

SpecPostprocess == InitPostprocess /\ [][NextPostprocess]_vars

\* --- the Handling Missing Values page on tables with text of every kind

NormRow(gender, units, year, agegroup) ==
    [Gender |-> gender, Age_Units |-> units, Year |-> year, AgeGroup |-> agegroup,
     ageinyear |-> FloatCell(30, <<>>)]

NormRows == {
    NormRow(StrCell(T_Unknown), StrCell(T_Years), FloatCell(2019, <<>>), StrCell(T_0_24)),
    NormRow(StrCell(T_NA_padded), StrCell(T_years_padded), NA, StrCell(T_90plus)),
    NormRow(StrCell(T_Male), NA, FloatCell(2020, <<>>), NA),
    NormRow(StrCell(T_male), StrCell(T_Months), FloatCell(2019, <<>>), StrCell(T_85plus)),
    NormRow(NA, StrCell(T_NaN), FloatCell(2019, <<>>), StrCell(T_0_24)),
    NormRow(StrCell(T_NotRecorded), StrCell(T_blank), NA, NA),
    NormRow(StrCell(<<>>), StrCell(T_Years), FloatCell(2020, <<>>), StrCell(T_0_24)) }

NormDtype(c) == IF c \in {"Year", "ageinyear"} THEN "float64" ELSE "object"

\* Tables of one to MaxRows records: the page draws a heatmap of the cells.
NormTables ==
    {[c \in cols |-> Column(NormDtype(c), [i \in 1..Len(rows) |-> rows[i][Field(c)]])] :
        cols \in {{"Gender", "Year"} \cup x : x \in SUBSET {"Age Units", "ageinyear", "AgeGroup"}},
        rows \in SeqsUpTo(NormRows, MaxRows) \ {<<>>}}

InitNormalize == InitOnPage({CsvFile(t) : t \in NormTables}, "missing_values")

NextNormalize == Load \/ Bind \/ Sidebar \/ RenderMissingValues

SpecNormalize == InitNormalize /\ [][NextNormalize]_vars

\* --- the Visualization page on tables with every mix of groups

VizRows == {
    [Gender |-> StrCell(T_Male), Race |-> StrCell(T_White), Year |-> FloatCell(2019, <<>>),
     USCensusDivision |-> StrCell(T_Pacific)],
    [Gender |-> StrCell(T_Female), Race |-> StrCell(T_Black), Year |-> FloatCell(2020, <<>>),
     USCensusDivision |-> StrCell(T_Mountain)],
    [Gender |-> StrCell(T_Male), Race |-> StrCell(T_Black), Year |-> FloatCell(2020, <<>>),
     USCensusDivision |-> StrCell(T_Pacific)],
    [Gender |-> NA, Race |-> NA, Year |-> NA, USCensusDivision |-> NA],
    [Gender |-> StrCell(T_Female), Race |-> StrCell(T_White), Year |-> FloatCell(2019, <<>>),
     USCensusDivision |-> NA] }

VizTables ==
    {[c \in cols |-> Column(NormDtype(c), [i \in 1..Len(rows) |-> rows[i][c]])] :
        cols \in SUBSET ChartColumns \ {{}},
        rows \in SeqsUpTo(VizRows, MaxRows)}

InitViz == InitOnPage({CsvFile(t) : t \in VizTables}, "visualization")

NextViz == Load \/ Bind \/ Sidebar \/ RenderVisualization

SpecViz == InitViz /\ [][NextViz]_vars

\* --- the Handling Data Duplicates page on tables with duplicated keys

DupRow(key, year, gender, age, time, race, other) ==
    [PcrKey |-> IntCell(key), Year |-> IntCell(year), Gender |-> StrCell(gender),
     Age_Number |-> IntCell(age), DispatchTime |-> StrCell(time), Race |-> race,
     ageinyear |-> IntCell(other)]

DupRows == {
    DupRow(42, 2019, T_Male, 30, T_0800, StrCell(T_White), 30),
    DupRow(42, 2019, T_Male, 30, T_0800, StrCell(T_Black), 30),
    DupRow(42, 2019, T_Male, 30, T_0800, StrCell(T_Black), 31),
    DupRow(42, 2020, T_Male, 30, T_0800, StrCell(T_Black), 30),
    DupRow(42, 2019, T_Female, 45, T_0800, StrCell(T_White), 30),
    DupRow(42, 2019, T_Male, 30, T_0915, StrCell(T_White), 30),
    DupRow(42, 2019, T_Male, 30, T_0800, NA, 30),
    DupRow(7, 2019, T_Male, 30, T_0800, StrCell(T_White), 30),
    DupRow(7, 2019, T_Male, 30, T_0800, StrCell(T_Black), 30) }

DupTables ==
    {[c \in cols |-> Column(RawDtype(c), [i \in 1..Len(rows) |-> rows[i][c]])] :
        cols \in {{"PcrKey", "Year", "Gender", "DispatchTime", "Race", "ageinyear"} \cup x :
                    x \in SUBSET {"Age_Number"}},
        rows \in SeqsUpTo(DupRows, MaxRows)}

InitDup == InitOnPage({CsvFile(t) : t \in DupTables}, "data_duplicates")

NextDup == Load \/ Bind \/ Sidebar \/ RenderDuplicates

SpecDup == InitDup /\ [][NextDup]_vars

\* ----------------------------------------------------------------- claims

Loaded == pc \in {"sidebar", "page", "done"}

\* C1: postprocess is idempotent: applied to its own result it gives that
\* result again, cell for cell and dtype for dtype (and where the first call
\* raises, so does the composition).
C1_PostprocessIdempotent == Len(applied) = 2 => applied[2] = applied[1]

\* A table with unparseable Year text and an AgeGroup outside the domain, both
\* made missing by the first call, has been processed twice.
C1_Witness ==
    /\ Len(applied) = 2
    /\ ~applied[1].raised
    /\ {"Year", "AgeGroup"} \subseteq Columns(file.table)
    /\ \E i \in 1..NRows(file.table) :
          /\ file.table["Year"].vals[i] = StrCell(T_abc)
          /\ IsNA(applied[1].table["Year"].vals[i])
          /\ file.table["AgeGroup"].vals[i] = StrCell(T_90plus)
          /\ IsNA(applied[1].table["AgeGroup"].vals[i])
    /\ \E i \in 1..NRows(file.table) : applied[1].table["Year"].vals[i] = IntCell(2019)

\* C2: with a Year column postprocess never raises and leaves Year an integer
\* column in which each cell is an integer or missing.
C2_YearNeverRaises ==
    (Len(applied) >= 1 /\ "Year" \in Columns(file.table)) =>
        /\ ~applied[1].raised
        /\ applied[1].table["Year"].dtype = "Int64"
        /\ \A i \in 1..NRows(file.table) : applied[1].table["Year"].vals[i].k \in {"int", "na"}

\* The cell the claim prescribes for a text cell v.
NormalizedAsClaimed(v) ==
    IF IsNA(v) THEN NA
    ELSE IF StrLower(StrStrip(v.s)) \in common_nulls THEN NA
    ELSE StrCell(StrLower(StrStrip(v.s)))

\* C3: in the normalized table every cell of a text column is missing where
\* the source cell is missing or its lower-cased, trimmed text is a null
\* token, and is that lower-cased, trimmed text otherwise; every other column
\* is as in the source.
C3_NullNormalization ==
    (pc = "done" /\ views.fdf_cleaned # 0) =>
        LET src == heap[fdf]
            dst == heap[views.fdf_cleaned]
        IN  /\ Columns(dst) = Columns(src)
            /\ \A c \in Columns(src) :
                  IF IsTextDtype(src[c].dtype)
                  THEN /\ Len(dst[c].vals) = Len(src[c].vals)
                       /\ \A i \in 1..Len(src[c].vals) :
                             dst[c].vals[i] = NormalizedAsClaimed(src[c].vals[i])
                  ELSE dst[c] = src[c]

\* The example of the claim: ["Unknown", " N/A ", "Male"] gave [missing, missing, "male"],
\* beside an integer and a categorical column.
C3_Witness ==
    /\ pc = "done" /\ views.fdf_cleaned # 0
    /\ {"Year", "AgeGroup"} \subseteq Columns(heap[fdf])
    /\ heap[fdf]["AgeGroup"].dtype = "category"
    /\ heap[fdf]["Gender"].vals = <<StrCell(T_Unknown), StrCell(T_NA_padded), StrCell(T_Male)>>
    /\ heap[views.fdf_cleaned]["Gender"].vals = <<NA, NA, StrCell(T_male)>>

\* C4: once loaded, the table bound to df holds the loaded cells, rows and
\* columns in every later state of every run, and the normalized table is
\* another object.
C4_LoadedTableImmutable ==
    df # 0 =>
        /\ cache # <<>>
        /\ heap[df] = cache[1]
        /\ views.fdf_cleaned # 0 => views.fdf_cleaned # df

\* The Missing Values page has run and its normalized table differs from the
\* loaded one, which df still holds.
C4_Witness ==
    /\ pc = "done" /\ out.rendered = "missing_values"
    /\ views.fdf_cleaned # 0
    /\ heap[views.fdf_cleaned] # heap[df]
    /\ heap[df] = cache[1]

\* C5: in a run whose load raised, the error is on the screen, the run has
\* stopped, and neither the sidebar nor a page was rendered; and a run stops
\* only so.
C5_LoadErrorHalts ==
    /\ (pc # "load" /\ load_data_from_repo(file).raised # "none") =>
          /\ out.error = load_data_from_repo(file).raised
          /\ pc = "stopped"
          /\ ~out.sidebar
          /\ out.rendered = "none"
    /\ out.error # "none" => (pc = "stopped" /\ ~out.sidebar /\ out.rendered = "none")

\* postprocess raised while loading a file that parsed, and the run has stopped.
C5_Witness ==
    /\ pc = "stopped"
    /\ file.kind = "csv"
    /\ out.error = "Exception"

\* The recognized columns a page reads.
ColumnsRead(p) ==
    IF p = "missing_values" THEN {"Age Units"}
    ELSE IF p = "data_duplicates" THEN {"PcrKey", "Year", "Gender", "Race"}
    ELSE IF p = "visualization" THEN ChartColumns
    ELSE {}

\* C6: a rendered page raised nothing, and for each recognized column it reads
\* that the table lacks (and for the lack of any time column) a warning naming
\* it is on the screen.
C6_DefensiveColumns ==
    pc = "done" =>
        /\ out.exception = "none"
        /\ \A c \in ColumnsRead(out.rendered) \ Columns(heap[fdf]) : c \in out.warnings
        /\ (out.rendered = "data_duplicates" /\ time_cols(heap[fdf]) = {}) => "Time" \in out.warnings

RECURSIVE SumCounts(_)
SumCounts(view) == IF view = <<>> THEN 0 ELSE view[1].Count + SumCounts(Tail(view))

\* The count view the Visualization page derived for column c.
ViewOf(c) ==
    IF c = "Gender" THEN views.gender_counts
    ELSE IF c = "Race" THEN views.race_counts
    ELSE IF c = "Year" THEN views.year_counts
    ELSE views.div_counts

\* C7: for each of Gender, Race, Year and USCensusDivision the table has, the
\* counts of its view sum to the number of rows whose cell in that column is
\* not missing, and no group of the view is the missing value.
C7_CountConservation ==
    (pc = "done" /\ out.rendered = "visualization") =>
        \A c \in ChartColumns \cap Columns(heap[fdf]) :
            /\ SumCounts(ViewOf(c)) = Cardinality(NotNaRows(heap[fdf], c))
            /\ \A i \in 1..Len(ViewOf(c)) : ~IsNA(ViewOf(c)[i].key)

\* The four views were derived from a table with missing cells in each column.
C7_Witness ==
    /\ pc = "done" /\ out.rendered = "visualization"
    /\ Columns(heap[fdf]) = ChartColumns
    /\ \A c \in ChartColumns :
          /\ Len(ViewOf(c)) = 2
          /\ Cardinality(NotNaRows(heap[fdf], c)) < NRows(heap[fdf])

\* The position of the first row of t with key in column c.
FirstPos(t, c, key) == CHOOSE i \in 1..NRows(t) : t[c].vals[i] = key /\ \A j \in 1..(i - 1) : t[c].vals[j] # key

DescendingByCount(view) == \A i \in 1..Len(view) : i < Len(view) => view[i].Count >= view[i + 1].Count

AscendingByKey(view) == \A i \in 1..Len(view) : i < Len(view) => CellLess(view[i].key, view[i + 1].key)

\* Descending by count, equal counts in the order of first encounter in t.
DescendingStable(view, t, c) ==
    \A i \in 1..Len(view) : i < Len(view) =>
        \/ view[i].Count > view[i + 1].Count
        \/ /\ view[i].Count = view[i + 1].Count
           /\ FirstPos(t, c, view[i].key) < FirstPos(t, c, view[i + 1].key)

\* C8 as stated: each of the four views is in descending order of count, equal
\* counts in the order in which their keys first occur in the table.
C8_AllDescendingStable ==
    (pc = "done" /\ out.rendered = "visualization") =>
        \A c \in ChartColumns \cap Columns(heap[fdf]) : DescendingStable(ViewOf(c), heap[fdf], c)

\* C8 amended: the Race and the USCensusDivision views are in non-increasing
\* order of count; the Gender and the Year views are in ascending order of key.
C8_SortedViews ==
    (pc = "done" /\ out.rendered = "visualization") =>
        /\ \A c \in {"Race", "USCensusDivision"} \cap Columns(heap[fdf]) : DescendingByCount(ViewOf(c))
        /\ \A c \in {"Gender", "Year"} \cap Columns(heap[fdf]) : AscendingByKey(ViewOf(c))

\* The Race view was reordered by the sort (the smaller key has the smaller
\* count) while the Gender view, with the same shape of counts, was not.
C8_Witness ==
    /\ pc = "done" /\ out.rendered = "visualization"
    /\ {"Race", "Gender"} \subseteq Columns(heap[fdf])
    /\ Len(views.race_counts) = 2
    /\ views.race_counts[1].Count > views.race_counts[2].Count
    /\ CellLess(views.race_counts[2].key, views.race_counts[1].key)
    /\ Len(views.gender_counts) = 2
    /\ views.gender_counts[1].Count < views.gender_counts[2].Count

\* Same rows, in the same order, under the same columns.
RowEqual(a, b) ==
    /\ Columns(a) = Columns(b)
    /\ NRows(a) = NRows(b)
    /\ \A c \in Columns(a) : \A i \in 1..NRows(a) : a[c].vals[i] = b[c].vals[i]

\* C9: the view fdf that the sidebar and every page read is row-equal to the
\* loaded table.
C9_FilterPassThrough == Loaded => (fdf # 0 /\ RowEqual(heap[fdf], heap[df]))

\* A page was rendered from a view that still holds a row with a missing cell.
C9_Witness ==
    /\ pc = "done" /\ out.rendered = "visualization"
    /\ NRows(heap[fdf]) = NRows(file.table)
    /\ \E c \in Columns(heap[fdf]) : \E i \in 1..NRows(heap[fdf]) : IsNA(heap[fdf][c].vals[i])

\* The cells of column c are the same in every row of the group of key k.
SameInGroup(d, k, c) == \A i, j \in 1..Len(GroupVals(d, k, c)) : GroupVals(d, k, c)[i] = GroupVals(d, k, c)[j]

DiffersOnlyInRace(d, k) ==
    /\ ~SameInGroup(d, k, "Race")
    /\ \A c \in Columns(d) \ {"Race"} : SameInGroup(d, k, c)

\* C10: on the Duplicates page each duplicated key whose rows differ only in
\* Race is counted by none of the three hypotheses and is among the keys
\* reported with a Race discrepancy; and the rows of each key so reported
\* agree in every column but Race.
C10_RaceOnlyClassification ==
    (pc = "done" /\ out.rendered = "data_duplicates" /\ out.exception = "none") =>
        LET d == dup_df(heap[fdf])
        IN  \A k \in dup_keys_list(heap[fdf]) :
              /\ DiffersOnlyInRace(d, k) =>
                    /\ views.year_nunique[k] <= 1
                    /\ ~views.multi_patient[k]
                    /\ ~views.revision_like[k]
                    /\ k \in views.keys_with_diff_race
              /\ k \in views.keys_with_diff_race =>
                    \A c \in Columns(d) \ {"Race"} : SameInGroup(d, k, c)

====
